---- MODULE Spec2Model ----
(***************************************************************************)
(* A model of the two scripts of the repository:                           *)
(*   - MockupGenerator.py: main() and generate_mockup_with_gemini(), the   *)
(*     per-(photo, scene) loop with its existence check, the memoised      *)
(*     framing and the HTTP retry loop  (specification Spec);              *)
(*   - BannerCollageMaker.py: make_banner(), the pool expansion and the    *)
(*     assignment of image paths to the cells of the 15x6 grid             *)
(*     (specification BannerSpec).                                         *)
(***************************************************************************)
EXTENDS Integers, Sequences, FiniteSets, TLC

(***************************************************************************)
(* Bounds of the model.                                                    *)
(***************************************************************************)
\* how many entries the listing of INPUT_FOLDER holds at most
MaxFiles == 2
\* how many entries of BASE_SCENE_PROMPTS (in dictionary order) a run iterates
NumScenes == 2

(***************************************************************************)
(* Program constants of MockupGenerator.py.                                *)
(***************************************************************************)
RETRY_DELAY == 5

max_retries == 3

\* the keys of BASE_SCENE_PROMPTS, in insertion (iteration) order
BASE_SCENE_PROMPTS ==
    << "etsy_cover_mockup", "living_room", "living_room_v2", "bedroom", "office" >>

\* the scenes one run of the model iterates: the first NumScenes keys
Scenes == SubSeq(BASE_SCENE_PROMPTS, 1, NumScenes)

NoScenes == Len(Scenes)

(***************************************************************************)
(* The environment: what os.listdir(INPUT_FOLDER) may hold.  A file name   *)
(* is its stem and its extension; "a.jpg" and "a.png" share the stem "a".  *)
(***************************************************************************)
FilePool ==
    << [stem |-> "a", ext |-> "jpg"],
       [stem |-> "a", ext |-> "png"],
       [stem |-> "b", ext |-> "jpg"],
       [stem |-> "notes", ext |-> "txt"] >>

Stems == { FilePool[k].stem : k \in 1..Len(FilePool) }

\* the extension filter of the list comprehension that builds image_files
IsImageFile(f) == f.ext \in {"png", "jpg", "jpeg", "webp"}

RECURSIVE SeqOfIndices(_, _)
\* the entries of FilePool whose index is in S, from index k on, in order
SeqOfIndices(S, k) ==
    IF k > Len(FilePool) THEN << >>
    ELSE IF k \in S THEN << FilePool[k] >> \o SeqOfIndices(S, k + 1)
         ELSE SeqOfIndices(S, k + 1)

\* the directory listings of at most MaxFiles entries
Listings ==
    { SeqOfIndices(S, 1) :
        S \in { T \in SUBSET (1..Len(FilePool)) : Cardinality(T) <= MaxFiles } }

\* [f for f in os.listdir(INPUT_FOLDER) if f.lower().endswith(...)]
ImageFilesOf(listing) == SelectSeq(listing, IsImageFile)

(***************************************************************************)
(* Output files.  A path of OUTPUT_FOLDER is the pair (stem, scene) that   *)
(* the f-string "{stem}_{scene}_mockup.jpg" is built from: two names are   *)
(* equal exactly when stem and scene are (no scene key is a suffix of      *)
(* another key preceded by "_", so the pair is read back from the name).   *)
(***************************************************************************)
\* os.path.splitext(filename)[0]
StemOf(filename) == filename.stem

\* save_path of the pair (filename, scene_name)
SavePath(filename, scene_name) == << StemOf(filename), scene_name >>

Paths == Stems \X { Scenes[s] : s \in 1..NoScenes }

\* file contents: absent, or present and written by `writer` (a unit of this
\* run, or NoWriter for a file that was there before the run)
NoWriter == << 0, 0 >>

AbsentFile == [present |-> FALSE, writer |-> NoWriter]

OldFile == [present |-> TRUE, writer |-> NoWriter]

WrittenBy(u) == [present |-> TRUE, writer |-> u]

\* the framed image: None, or the image made by the k-th framing of photo p
NoneArt == << 0, 0 >>

(***************************************************************************)
(* The answers one requests.post can get.                                  *)
(*   image      200, candidates[0].content.parts[0].inlineData.data holds  *)
(*              a decodable image                                          *)
(*   safety     200, candidates[0].finishReason == 'SAFETY'                *)
(*   no_image   200, no 'candidates' key or a candidate without a usable   *)
(*              content/parts/inlineData                                   *)
(*   empty_candidates  200, "candidates": []  ([][0] raises IndexError)    *)
(*   undecodable 200, inlineData.data that b64decode / Image.open rejects  *)
(*              (binascii.Error, UnidentifiedImageError)                   *)
(*   http       raise_for_status raised HTTPError for `status`             *)
(*   network    ConnectionError / Timeout: e.response is None              *)
(* `truthy` is bool(e.response).  requests.Response.__bool__ is            *)
(* Response.ok, which is False for every status >= 400, so the real client *)
(* gives truthy = FALSE for an HTTPError; a test double's response object  *)
(* is truthy.  Both are answers the function can be handed.                *)
(***************************************************************************)
Answers ==
    { [kind |-> k, status |-> 200, truthy |-> TRUE] :
        k \in {"image", "safety", "no_image", "empty_candidates", "undecodable"} }
    \cup { [kind |-> "http", status |-> s, truthy |-> t] :
             s \in {429, 500}, t \in BOOLEAN }
    \cup { [kind |-> "network", status |-> 0, truthy |-> FALSE] }

\* isinstance(e, requests.exceptions.RequestException): what the except catches
IsRequestException(a) == a.kind \in {"http", "network"}

\* the exceptions raised inside the try that are no RequestException
RaisesOther(a) == a.kind \in {"empty_candidates", "undecodable"}

\* mutant: the status code is not looked at, any error with a response is retried
IsRateLimit_anyStatus(a) == a.truthy

\* e.response and e.response.status_code == 429
IsRateLimit(a) == a.truthy /\ a.status = 429

\* mutant: the last attempt sleeps and retries too
MayRetry_always(att) == TRUE

\* attempt < max_retries - 1
MayRetry(att) == att < max_retries - 1

RECURSIVE Pow2(_)
Pow2(n) == IF n = 0 THEN 1 ELSE 2 * Pow2(n - 1)

\* delay = RETRY_DELAY * (2 ** attempt)
Delay(att) == RETRY_DELAY * Pow2(att)

\* for attempt in range(max_retries): whether the loop has another iteration
InRange(att) == att < max_retries

\* if mockup_image:
ShouldSave(res) == res = "image"

\* mutant: the cached frame is never reused
NeedsFraming_always(art) == TRUE

\* if not framed_art:
NeedsFraming(art) == art = NoneArt

(***************************************************************************)
(* Bounds of the banner model: the sizes of the two photo pools.           *)
(***************************************************************************)
\* the favourites folder holds 0..MaxFavs images
MaxFavs == 15
\* the archive holds 0..MaxOthersSmall other images, or about outer_slots
MaxOthersSmall == 3

(***************************************************************************)
(* Program constants of BannerCollageMaker.py.                             *)
(***************************************************************************)
W == 2560

H == 1440

total_cols == 15

total_rows == 6

center_cols == 7

center_rows == 2

center_slots == center_cols * center_rows

outer_slots == (total_cols * total_rows) - center_slots

start_col == (total_cols - center_cols) \div 2

end_col == start_col + center_cols

start_row == (total_rows - center_rows) \div 2

end_row == start_row + center_rows

\* grid_w = 6 if style == "cinematic" else 16
grid_w(st) == IF st = "cinematic" THEN 6 ELSE 16

\* tile_w = (W - (total_cols + 1) * grid_w) // total_cols
tile_w(st) == (W - (total_cols + 1) * grid_w(st)) \div total_cols

\* tile_h = (H - (total_rows + 1) * grid_w) // total_rows
tile_h(st) == (H - (total_rows + 1) * grid_w(st)) \div total_rows

\* mutant: the column pitch leaves the gutter out
PasteX_noGutter(st, col) == grid_w(st) + col * tile_w(st)

\* x = grid_w + c * (tile_w + grid_w)
PasteX(st, col) == grid_w(st) + col * (tile_w(st) + grid_w(st))

\* y = grid_w + r * (tile_h + grid_w)
PasteY(st, row) == grid_w(st) + row * (tile_h(st) + grid_w(st))

\* an image path: its directory and its basename
FavPath(k) == [dir |-> "Favs", name |-> k]

ArchivePath(k) == [dir |-> "banner_photos_v5", name |-> k]

\* os.path.basename(p)
Basename(path) == path.name

\* the pool sizes the model draws
FavSizes == 0..MaxFavs

OtherSizes == (0..MaxOthersSmall) \cup ((outer_slots - 1)..(outer_slots + 1))

\* basenames of archive images that are no favourites start above this
OtherBase == MaxFavs + 1

\* favs: the n images of FAVS_FOLDER
FavsOf(n) == [k \in 1..n |-> FavPath(k)]

\* all_imgs: copies of the first `dup` favourites, then `n` other images
AllImgsOf(dup, n) ==
    [k \in 1..(dup + n) |->
        IF k <= dup THEN ArchivePath(k) ELSE ArchivePath(OtherBase + k - dup)]

\* others = [p for p in all_imgs if os.path.basename(p) not in fav_names]
OthersOf(imgs, fv) ==
    LET fav_names == { Basename(fv[k]) : k \in 1..Len(fv) }
        NotFav(path) == Basename(path) \notin fav_names
    IN  SelectSeq(imgs, NotFav)

RECURSIVE Repeat(_, _)
\* pool * k: the list concatenated k times (empty for k <= 0)
Repeat(pool, k) == IF k <= 0 THEN << >> ELSE pool \o Repeat(pool, k - 1)

\* seq[:n]
Take(seq, n) == SubSeq(seq, 1, IF n < Len(seq) THEN n ELSE Len(seq))

\* mutant: the pool is repeated slots // len(pool) times, without the + 1
Expand_noExtraCopy(pool, slots) == Take(Repeat(pool, slots \div Len(pool)), slots)

\* (pool * (slots // len(pool) + 1))[:slots]
Expand(pool, slots) == Take(Repeat(pool, slots \div Len(pool) + 1), slots)

Reverse(seq) == [k \in 1..Len(seq) |-> seq[Len(seq) + 1 - k]]

RotateLeft(seq) == [k \in 1..Len(seq) |-> seq[(k % Len(seq)) + 1]]

\* random.shuffle(seq): the list in some other order; the model draws the
\* order from three permutations
Shuffles(seq) == { seq, Reverse(seq), RotateLeft(seq) }

\* mutant: the centre block is tested on the rows only
InCenter_rowsOnly(row, col) == start_row <= row /\ row < end_row

\* start_row <= r < end_row and start_col <= c < end_col
InCenter(row, col) ==
    /\ start_row <= row /\ row < end_row
    /\ start_col <= col /\ col < end_col

VARIABLES
    inputExists,   \* os.path.exists(INPUT_FOLDER)
    listing,       \* os.listdir(INPUT_FOLDER)
    apiKeySet,     \* bool(API_KEY)
    image_files,   \* the filtered listing
    fs,            \* OUTPUT_FOLDER: path -> file content
    pc,            \* where main() (and the call it is in) stands
    i, j,          \* the loops' indices (1-based)
    framed_art,    \* main()'s framed_art
    attempt,       \* generate_mockup_with_gemini's attempt
    result,        \* what the last call returned: "image", "none", "raised", "-"
    ustate,        \* unit -> its state of the unit-of-work machine
    foundAt,       \* unit -> the file content seen by os.path.exists(save_path)
    posted,        \* the units an HTTP POST was issued for
    callLog,       \* the answers to the POSTs of the call in progress
    delays,        \* the time.sleep(delay) calls of the call in progress
    frameCalls,    \* photo -> number of add_frame_and_mat calls
    frameFailed,   \* the photos add_frame_and_mat returned None for
    reqArt         \* the (photo, framed image) pairs sent in POSTs

(***************************************************************************)
(* State of BannerCollageMaker.py: one call of make_banner.                *)
(***************************************************************************)
VARIABLES
    bpc,             \* where make_banner stands
    style,           \* make_banner's style argument
    favs,            \* the paths of the images of FAVS_FOLDER
    all_imgs,        \* the paths of the images of the extracted archive
    others,          \* all_imgs without the favourites' basenames
    favs_to_place,   \* the expanded, shuffled favourites pool
    others_to_place, \* the expanded, shuffled general pool
    r, c,            \* the grid loops' indices (0-based, as in the code)
    fav_idx,
    other_idx,
    placed           \* one entry per executed loop body: cell, img_path, offset

bannerVars == << bpc, style, favs, all_imgs, others, favs_to_place, others_to_place,
                 r, c, fav_idx, other_idx, placed >>

mockVars == << inputExists, listing, apiKeySet, image_files, fs, pc, i, j, framed_art,
               attempt, result, ustate, foundAt, posted, callLog, delays, frameCalls,
               frameFailed, reqArt >>

vars == << mockVars, bannerVars >>

Photos == 1..Len(image_files)

Units == Photos \X (1..NoScenes)

\* the output path of unit u = (photo index, scene index)
PathOf(u) == SavePath(image_files[u[1]], Scenes[u[2]])

\* mutant: the existence check looks at a path that is never there
Exists_never(path) == FALSE

\* os.path.exists(save_path)
Exists(path) == fs[path].present

Unreached == [present |-> FALSE, writer |-> << 0, 1 >>]

UnitsOf(files) == (1..Len(files)) \X (1..NoScenes)

\* the unit main() is at
Cur == << i, j >>

(***************************************************************************)
(* Init: the state main() is started in.  The environment (the input       *)
(* folder, its listing, whether API_KEY was pasted in, the files already   *)
(* in OUTPUT_FOLDER) is any of the bounded possibilities.  Only output     *)
(* files of listed image stems matter to a run; the others are absent.     *)
(***************************************************************************)
StemsOf(files) == { StemOf(files[k]) : k \in 1..Len(files) }

\* make_banner is not running
BannerIdle ==
    /\ bpc = "idle"
    /\ style = "cinematic"
    /\ favs = << >>
    /\ all_imgs = << >>
    /\ others = << >>
    /\ favs_to_place = << >>
    /\ others_to_place = << >>
    /\ r = 0
    /\ c = 0
    /\ fav_idx = 0
    /\ other_idx = 0
    /\ placed = << >>

Init ==
    /\ BannerIdle
    /\ inputExists \in BOOLEAN
    /\ apiKeySet \in BOOLEAN
    /\ listing \in (IF inputExists THEN Listings ELSE { << >> })
    /\ fs \in { f \in [Paths -> {AbsentFile, OldFile}] :
                  \A q \in Paths :
                      q[1] \notin StemsOf(ImageFilesOf(listing)) => f[q] = AbsentFile }
    /\ image_files = << >>
    /\ pc = "start"
    /\ i = 0
    /\ j = 0
    /\ framed_art = NoneArt
    /\ attempt = 0
    /\ result = "-"
    /\ ustate = << >>
    /\ foundAt = << >>
    /\ posted = {}
    /\ callLog = << >>
    /\ delays = << >>
    /\ frameCalls = << >>
    /\ frameFailed = {}
    /\ reqArt = {}

(***************************************************************************)
(* main(), lines 204-216: the two up-front checks and the listing.         *)
(***************************************************************************)
AbortMissingInput ==
    /\ pc = "start"
    /\ \/ ~inputExists
       \/ ImageFilesOf(listing) = << >>
    /\ pc' = "aborted"
    /\ UNCHANGED << bannerVars, frameFailed, inputExists, listing, apiKeySet,
                    image_files, fs, i, j, framed_art, attempt, result, ustate,
                    foundAt, posted, callLog, delays, frameCalls, reqArt >>

Start ==
    /\ pc = "start"
    /\ inputExists
    /\ ImageFilesOf(listing) # << >>
    /\ image_files' = ImageFilesOf(listing)
    /\ i' = 1
    /\ j' = 1
    /\ framed_art' = NoneArt
    /\ ustate' = [u \in UnitsOf(image_files') |-> "PENDING"]
    /\ foundAt' = [u \in UnitsOf(image_files') |-> Unreached]
    /\ frameCalls' = [p \in 1..Len(image_files') |-> 0]
    /\ pc' = "scene"
    /\ UNCHANGED << bannerVars, frameFailed, inputExists, listing, apiKeySet, fs,
                    attempt, result, posted, callLog, delays, reqArt >>

\* the end of one iteration of the scene loop: the next scene, or the end of the
\* inner loop
NextScene ==
    IF j < NoScenes
    THEN /\ j' = j + 1
         /\ pc' = "scene"
    ELSE /\ j' = j
         /\ pc' = "photo_end"

(***************************************************************************)
(* main(), lines 226-232: the output exists, continue.                     *)
(***************************************************************************)
SkipExisting ==
    /\ pc = "scene"
    /\ Exists(PathOf(Cur))
    /\ foundAt' = [foundAt EXCEPT ![Cur] = fs[PathOf(Cur)]]
    /\ ustate' = [ustate EXCEPT ![Cur] = "DONE"]
    /\ NextScene
    /\ UNCHANGED << bannerVars, frameFailed, inputExists, listing, apiKeySet,
                    image_files, fs, i, framed_art, attempt, result, posted,
                    callLog, delays, frameCalls, reqArt >>

\* lines 230, 236: the output is missing, the unit is worked on
BeginUnit ==
    /\ pc = "scene"
    /\ ~Exists(PathOf(Cur))
    /\ foundAt' = [foundAt EXCEPT ![Cur] = fs[PathOf(Cur)]]
    /\ ustate' = [ustate EXCEPT ![Cur] = "FRAMING"]
    /\ pc' = "frame"
    /\ UNCHANGED << bannerVars, frameFailed, inputExists, listing, apiKeySet,
                    image_files, fs, i, j, framed_art, attempt, result, posted,
                    callLog, delays, frameCalls, reqArt >>

(***************************************************************************)
(* main(), lines 236-241: frame once per photo.                            *)
(***************************************************************************)
ReuseFrame ==
    /\ pc = "frame"
    /\ ~NeedsFraming(framed_art)
    /\ pc' = "call"
    /\ UNCHANGED << bannerVars, frameFailed, inputExists, listing, apiKeySet,
                    image_files, fs, i, j, framed_art, attempt, result, ustate,
                    foundAt, posted, callLog, delays, frameCalls, reqArt >>

\* add_frame_and_mat(image_path) returns the framed photo
FrameOk ==
    /\ pc = "frame"
    /\ NeedsFraming(framed_art)
    /\ frameCalls' = [frameCalls EXCEPT ![i] = @ + 1]
    /\ framed_art' = << i, frameCalls'[i] >>
    /\ pc' = "call"
    /\ UNCHANGED << bannerVars, frameFailed, inputExists, listing, apiKeySet,
                    image_files, fs, i, j, attempt, result, ustate, foundAt, posted,
                    callLog, delays, reqArt >>

\* add_frame_and_mat(image_path) caught an exception and returned None: break
FrameFail ==
    /\ pc = "frame"
    /\ NeedsFraming(framed_art)
    /\ frameCalls' = [frameCalls EXCEPT ![i] = @ + 1]
    /\ frameFailed' = frameFailed \cup { i }
    /\ ustate' = [ustate EXCEPT ![Cur] = "FAILED"]
    /\ pc' = "photo_end"
    /\ UNCHANGED << bannerVars, inputExists, listing, apiKeySet, image_files, fs, i,
                    j, framed_art, attempt, result, foundAt, posted, callLog,
                    delays, reqArt >>

(***************************************************************************)
(* generate_mockup_with_gemini, lines 130-155: the API_KEY check and the   *)
(* entry of the retry loop.                                                *)
(***************************************************************************)
EnterCall ==
    /\ pc = "call"
    /\ ustate' = [ustate EXCEPT ![Cur] = IF apiKeySet THEN "REQUESTING" ELSE "FAILED"]
    /\ callLog' = << >>
    /\ delays' = << >>
    /\ attempt' = 0
    /\ IF apiKeySet /\ InRange(0)
       THEN /\ pc' = "post"
            /\ result' = "-"
       ELSE /\ pc' = "ret"
            /\ result' = "none"
    /\ UNCHANGED << bannerVars, frameFailed, inputExists, listing, apiKeySet,
                    image_files, fs, i, j, framed_art, foundAt, posted, frameCalls,
                    reqArt >>

\* what one POST and the handling of its answer leave behind:
\* the code position, the call's result and the unit's state
AfterAnswer(a, att) ==
    IF a.kind = "image"
    THEN [pc |-> "ret", result |-> "image", ustate |-> "REQUESTING"]
    ELSE IF a.kind = "safety"
    THEN [pc |-> "ret", result |-> "none", ustate |-> "SAFETY_BLOCKED"]
    ELSE IF a.kind = "no_image"
    THEN [pc |-> "ret", result |-> "none", ustate |-> "FAILED"]
    ELSE IF RaisesOther(a)
    THEN [pc |-> "crashed", result |-> "raised", ustate |-> "FAILED"]
    ELSE IF IsRateLimit(a) /\ MayRetry(att)
    THEN [pc |-> "sleep", result |-> "-", ustate |-> "RETRYING"]
    ELSE [pc |-> "ret", result |-> "none", ustate |-> "FAILED"]

(***************************************************************************)
(* Lines 156-196: one iteration of the loop: the POST and its handling.    *)
(***************************************************************************)
Post ==
    /\ pc = "post"
    /\ \E a \in Answers :
        /\ callLog' = Append(callLog, a)
        /\ pc' = AfterAnswer(a, attempt).pc
        /\ result' = AfterAnswer(a, attempt).result
        /\ ustate' = [ustate EXCEPT ![Cur] = AfterAnswer(a, attempt).ustate]
    /\ posted' = posted \cup { Cur }
    /\ reqArt' = reqArt \cup { << i, framed_art >> }
    /\ UNCHANGED << bannerVars, frameFailed, inputExists, listing, apiKeySet,
                    image_files, fs, i, j, framed_art, attempt, foundAt, delays,
                    frameCalls >>

\* mutant: a retry that does not count the attempt
NextAttempt_stuck(att) == att

\* the value of attempt in the loop's next iteration
NextAttempt(att) == att + 1

\* lines 185-187 and the loop's next iteration (line 197 when the range is over)
RetrySleep ==
    /\ pc = "sleep"
    /\ delays' = Append(delays, Delay(attempt))
    /\ attempt' = NextAttempt(attempt)
    /\ IF InRange(attempt')
       THEN /\ pc' = "post"
            /\ result' = result
            /\ ustate' = [ustate EXCEPT ![Cur] = "REQUESTING"]
       ELSE /\ pc' = "ret"
            /\ result' = "none"
            /\ ustate' = [ustate EXCEPT ![Cur] = "FAILED"]
    /\ UNCHANGED << bannerVars, frameFailed, inputExists, listing, apiKeySet,
                    image_files, fs, i, j, framed_art, foundAt, posted, callLog,
                    frameCalls, reqArt >>

(***************************************************************************)
(* main(), lines 245-252: save the mockup, or go on without one.           *)
(***************************************************************************)
SaveMockup ==
    /\ pc = "ret"
    /\ ShouldSave(result)
    /\ fs' = [fs EXCEPT ![PathOf(Cur)] = WrittenBy(Cur)]
    /\ ustate' = [ustate EXCEPT ![Cur] = "DONE"]
    /\ NextScene
    /\ result' = "-"
    /\ callLog' = << >>
    /\ delays' = << >>
    /\ UNCHANGED << bannerVars, frameFailed, inputExists, listing, apiKeySet,
                    image_files, i, framed_art, attempt, foundAt, posted,
                    frameCalls, reqArt >>

SkipFailed ==
    /\ pc = "ret"
    /\ ~ShouldSave(result)
    /\ NextScene
    /\ result' = "-"
    /\ callLog' = << >>
    /\ delays' = << >>
    /\ UNCHANGED << bannerVars, frameFailed, inputExists, listing, apiKeySet,
                    image_files, fs, i, framed_art, attempt, ustate, foundAt,
                    posted, frameCalls, reqArt >>

(***************************************************************************)
(* main(), lines 218-223 and 254-258: the photo loop.                      *)
(***************************************************************************)
NextPhoto ==
    /\ pc = "photo_end"
    /\ i < Len(image_files)
    /\ i' = i + 1
    /\ j' = 1
    /\ framed_art' = NoneArt
    /\ pc' = "scene"
    /\ UNCHANGED << bannerVars, frameFailed, inputExists, listing, apiKeySet,
                    image_files, fs, attempt, result, ustate, foundAt, posted,
                    callLog, delays, frameCalls, reqArt >>

Finish ==
    /\ pc = "photo_end"
    /\ i >= Len(image_files)
    /\ pc' = "done"
    /\ UNCHANGED << bannerVars, frameFailed, inputExists, listing, apiKeySet,
                    image_files, fs, i, j, framed_art, attempt, result, ustate,
                    foundAt, posted, callLog, delays, frameCalls, reqArt >>

Next ==
    \/ AbortMissingInput
    \/ Start
    \/ SkipExisting
    \/ BeginUnit
    \/ ReuseFrame
    \/ FrameOk
    \/ FrameFail
    \/ EnterCall
    \/ Post
    \/ RetrySleep
    \/ SaveMockup
    \/ SkipFailed
    \/ NextPhoto
    \/ Finish

(***************************************************************************)
(* BannerCollageMaker.py: one call make_banner(style, tone, out_name).     *)
(***************************************************************************)
\* main() is not running
MockIdle ==
    /\ inputExists = FALSE
    /\ apiKeySet = FALSE
    /\ listing = << >>
    /\ fs = [q \in Paths |-> AbsentFile]
    /\ image_files = << >>
    /\ pc = "idle"
    /\ i = 0
    /\ j = 0
    /\ framed_art = NoneArt
    /\ attempt = 0
    /\ result = "-"
    /\ ustate = << >>
    /\ foundAt = << >>
    /\ posted = {}
    /\ callLog = << >>
    /\ delays = << >>
    /\ frameCalls = << >>
    /\ frameFailed = {}
    /\ reqArt = {}

\* the state make_banner is called in: the folder and the archive hold the
\* drawn numbers of images, the archive with or without copies of the favourites
BannerInit ==
    /\ MockIdle
    /\ bpc = "start"
    /\ style \in {"cinematic", "clean"}
    /\ \E n \in FavSizes : favs = FavsOf(n)
    /\ \E n \in OtherSizes, dup \in {0, Len(favs)} : all_imgs = AllImgsOf(dup, n)
    /\ others = << >>
    /\ favs_to_place = << >>
    /\ others_to_place = << >>
    /\ r = 0
    /\ c = 0
    /\ fav_idx = 0
    /\ other_idx = 0
    /\ placed = << >>

\* lines 103-108: one of the pools is empty, ValueError
RaiseEmptyPool ==
    /\ bpc = "start"
    /\ \/ favs = << >>
       \/ OthersOf(all_imgs, favs) = << >>
    /\ others' = OthersOf(all_imgs, favs)
    /\ bpc' = "value_error"
    /\ UNCHANGED << mockVars, style, favs, all_imgs, favs_to_place, others_to_place,
                    r, c, fav_idx, other_idx, placed >>

\* lines 103-132: the pools are expanded and shuffled, the loops start
PreparePools ==
    /\ bpc = "start"
    /\ favs # << >>
    /\ OthersOf(all_imgs, favs) # << >>
    /\ others' = OthersOf(all_imgs, favs)
    /\ favs_to_place' \in Shuffles(Expand(favs, center_slots))
    /\ others_to_place' \in Shuffles(Expand(others', outer_slots))
    /\ r' = 0
    /\ c' = 0
    /\ fav_idx' = 0
    /\ other_idx' = 0
    /\ bpc' = "cell"
    /\ UNCHANGED << mockVars, style, favs, all_imgs, placed >>

\* the loops' next indices: the next column, the next row, or the end
NextCell ==
    IF c + 1 < total_cols
    THEN /\ c' = c + 1
         /\ r' = r
         /\ bpc' = "cell"
    ELSE /\ c' = 0
         /\ r' = r + 1
         /\ bpc' = IF r + 1 < total_rows THEN "cell" ELSE "finish"

\* lines 135-148: one loop body: the cell's image path and paste offset.  An
\* index past the end of a pool is Python's IndexError.
PlaceCell ==
    /\ bpc = "cell"
    /\ LET pool == IF InCenter(r, c) THEN favs_to_place ELSE others_to_place
           idx == IF InCenter(r, c) THEN fav_idx ELSE other_idx
       IN  IF idx >= Len(pool)
           THEN /\ bpc' = "index_error"
                /\ UNCHANGED << r, c, fav_idx, other_idx, placed >>
           ELSE /\ placed' = Append(placed,
                                [r |-> r, c |-> c, img_path |-> pool[idx + 1],
                                 x |-> PasteX(style, c), y |-> PasteY(style, r)])
                /\ fav_idx' = IF InCenter(r, c) THEN fav_idx + 1 ELSE fav_idx
                /\ other_idx' = IF InCenter(r, c) THEN other_idx ELSE other_idx + 1
                /\ NextCell
    /\ UNCHANGED << mockVars, style, favs, all_imgs, others, favs_to_place,
                    others_to_place >>

\* lines 152-162: vignette, logo, save
FinishBanner ==
    /\ bpc = "finish"
    /\ bpc' = "saved"
    /\ UNCHANGED << mockVars, style, favs, all_imgs, others, favs_to_place,
                    others_to_place, r, c, fav_idx, other_idx, placed >>

BannerNext ==
    \/ RaiseEmptyPool
    \/ PreparePools
    \/ PlaceCell
    \/ FinishBanner

BannerSpec == BannerInit /\ [][BannerNext]_vars

Spec == Init /\ [][Next]_vars

(***************************************************************************)
(* Properties of the mockup pipeline.                                      *)
(***************************************************************************)
\* the answers of the call so far were all HTTP 429
All429(log) == \A k \in 1..Len(log) : log[k].kind = "http" /\ log[k].status = 429

LastAnswer == callLog[Len(callLog)]

MainEnded == pc \in {"done", "aborted", "crashed"}

\* C1: a (photo, scene) pair whose output file exists when main() reaches it gets
\* no HTTP POST, and the file it found is still there with the same content,
\* whatever happened to the other pairs.
C1_ExistingOutputUntouched ==
    \A u \in DOMAIN foundAt :
        foundAt[u].present => /\ u \notin posted
                              /\ fs[PathOf(u)] = foundAt[u]

\* C1 witness: the run is over, one pair was skipped for its existing file and
\* another pair of the run was requested and saved.
C1_Witness ==
    /\ pc = "done"
    /\ \E u, v \in DOMAIN foundAt :
        /\ foundAt[u].present
        /\ v \in posted
        /\ fs[PathOf(v)] = WrittenBy(v)

\* C2 (as claimed): a call answered with HTTP 429 up to three times in a row is
\* retried each time (it sleeps RETRY_DELAY * 2^k and posts again), so that a
\* fourth attempt follows three 429 answers.
C2_RetriedAfterEach429 ==
    (/\ pc # "post"
     /\ callLog # << >>
     /\ Len(callLog) <= 3
     /\ All429(callLog))
        => /\ pc = "sleep"
           /\ Delay(attempt) = RETRY_DELAY * Pow2(Len(callLog) - 1)

\* C3: a call whose every POST is answered with HTTP 429 issues at most
\* max_retries POSTs and returns no image (it does not raise); main() then
\* writes no file and goes on to the next scene or to the end of the photo.
C3_RateLimitExhausted ==
    /\ [](All429(callLog) =>
            /\ Len(callLog) <= max_retries
            /\ pc # "crashed"
            /\ pc = "ret" => result = "none")
    /\ [][(pc = "ret" /\ callLog # << >> /\ All429(callLog)) =>
            /\ fs' = fs
            /\ ~Exists(PathOf(Cur))
            /\ pc' \in {"scene", "photo_end"}
            /\ pc' = "scene" => << i', j' >> = << i, j + 1 >>]_vars

\* C3 witness: the call returned after max_retries POSTs, all answered 429.
C3_Witness ==
    /\ pc = "ret"
    /\ Len(callLog) = max_retries
    /\ All429(callLog)
    /\ result = "none"

\* C4: within one call only an HTTP 429 answer is followed by another POST; a
\* safety block, a 200 without a usable image, a non-429 HTTP error and a
\* network error each end the call after that POST, with no image returned
\* and no sleep after it.
C4_Only429Retried ==
    /\ \A k \in 1..(Len(callLog) - 1) :
           callLog[k].kind = "http" /\ callLog[k].status = 429
    /\ (callLog # << >> /\ LastAnswer.status # 429 /\ LastAnswer.kind # "image")
          => /\ pc \in {"ret", "crashed"}
             /\ result \in {"none", "raised"}
             /\ Len(delays) = Len(callLog) - 1

\* C4 witness: a call that was rate-limited once and then safety-blocked.
C4_Witness ==
    /\ pc = "ret"
    /\ Len(callLog) = 2
    /\ LastAnswer.kind = "safety"
    /\ delays = << RETRY_DELAY >>

\* C5 (as claimed): no failure outcome of a unit makes main() raise.
C5_NoFailureAborts == pc # "crashed"

\* the moves of one unit of work, as the specification lists them
ClaimedMoves ==
    { << "PENDING", "DONE" >>, << "PENDING", "FRAMING" >>,
      << "FRAMING", "REQUESTING" >>, << "REQUESTING", "RETRYING" >>,
      << "RETRYING", "REQUESTING" >>, << "REQUESTING", "DONE" >>,
      << "REQUESTING", "SAFETY_BLOCKED" >>, << "REQUESTING", "FAILED" >> }

\* the moves the code makes: a unit also fails straight out of FRAMING (the
\* framing failed, or API_KEY is empty and no request is made)
CodeMoves == ClaimedMoves \cup { << "FRAMING", "FAILED" >> }

TerminalStates == {"DONE", "SAFETY_BLOCKED", "FAILED"}

\* a variant of main(): the steps it can still take are bounded by it
UnitCost == 2 * max_retries + 4

PhotoCost == NoScenes * UnitCost + 2

LocalRank ==
    CASE pc = "scene" -> UnitCost - 1
      [] pc = "frame" -> UnitCost - 2
      [] pc = "call" -> UnitCost - 3
      [] pc = "post" -> UnitCost - 4 - 2 * attempt
      [] pc = "sleep" -> UnitCost - 5 - 2 * attempt
      [] OTHER -> 1

Measure ==
    IF pc = "start" THEN Len(ImageFilesOf(listing)) * PhotoCost + 2
    ELSE IF MainEnded THEN 0
    ELSE IF pc = "photo_end" THEN (Len(image_files) - i) * PhotoCost + 1
    ELSE (Len(image_files) - i) * PhotoCost + 1 + (NoScenes - j) * UnitCost + LocalRank

C9_MarkerIsOwn ==
    \A u \in DOMAIN foundAt :
        foundAt[u].present => foundAt[u].writer = NoWriter

\* C10: add_frame_and_mat is called at most once per photo, and only once a
\* scene lacking its output file is reached, all scenes before it having theirs;
\* every POST for the photo carries the image of that one call; a failed
\* framing leaves the photo without any POST and main() at the end of the photo.
C10_FramedOncePerPhoto ==
    \A p \in DOMAIN frameCalls :
        /\ frameCalls[p] <= 1
        /\ frameCalls[p] = 1 =>
              \E s \in 1..NoScenes :
                  /\ foundAt[<< p, s >>] = AbsentFile
                  /\ \A t \in 1..(s - 1) : foundAt[<< p, t >>].present
        /\ \A q \in reqArt : q[1] = p => q[2] = << p, 1 >>
        /\ \A s \in 1..NoScenes : << p, s >> \in posted => frameCalls[p] = 1
        /\ p \in frameFailed =>
              /\ \A s \in 1..NoScenes : << p, s >> \notin posted
              /\ i > p \/ pc \in {"photo_end", "done"}

\* C10 witness: two scenes of one photo were requested after a single framing.
C10_Witness ==
    \E p \in DOMAIN frameCalls :
        /\ frameCalls[p] = 1
        /\ Cardinality({ u \in posted : u[1] = p }) >= 2

(***************************************************************************)
(* Properties of make_banner.                                              *)
(***************************************************************************)
Range(seq) == { seq[k] : k \in 1..Len(seq) }

\* the k-th executed loop body is the k-th cell in row-major order, and its
\* image comes from the favourites inside rows [2,4) x columns [4,11) and from
\* the general pool elsewhere
CellAsClaimed(k) ==
    LET e == placed[k]
    IN  /\ e.r = (k - 1) \div 15
        /\ e.c = (k - 1) % 15
        /\ IF 2 <= e.r /\ e.r < 4 /\ 4 <= e.c /\ e.c < 11
           THEN e.img_path \in Range(favs)
           ELSE e.img_path \in Range(others)

\* C6: with non-empty pools make_banner raises nothing; the loop bodies visit
\* the 90 cells once each in row-major order; the 14 cells of rows [2,4) x
\* columns [4,11) get a favourite, the other 76 an image of the general pool;
\* fav_idx and other_idx never pass the end of their pools.
C6_GridAssignment ==
    /\ bpc # "index_error"
    /\ bpc = "value_error" => (favs = << >> \/ others = << >>)
    /\ fav_idx <= Len(favs_to_place)
    /\ other_idx <= Len(others_to_place)
    /\ Len(placed) = fav_idx + other_idx
    /\ placed # << >> => CellAsClaimed(Len(placed))
    /\ bpc \in {"finish", "saved"} =>
          /\ Len(placed) = 90
          /\ fav_idx = 14
          /\ other_idx = 76
          /\ \A k \in 1..90 : CellAsClaimed(k)

\* C6 witness: a banner was completed from pools smaller than their slot counts.
C6_Witness ==
    /\ bpc = "saved"
    /\ style = "clean"
    /\ Len(favs) = 3
    /\ Len(others) = 2
    /\ Len(placed) = 90

\* C7: the expanded pools have exactly 14 and 76 entries for every pool size
\* n >= 1, and hold every image of their pool when the pool is no larger than
\* its slot count.
C7_PoolExpansion ==
    bpc \in {"cell", "finish", "saved"} =>
        /\ Len(favs_to_place) = 14
        /\ Len(others_to_place) = 76
        /\ placed = << >> =>
              /\ Range(favs_to_place) \subseteq Range(favs)
              /\ Range(others_to_place) \subseteq Range(others)
              /\ Len(favs) <= 14 => Range(favs) \subseteq Range(favs_to_place)
              /\ Len(others) <= 76 => Range(others) \subseteq Range(others_to_place)

\* C7 witness: the pools were expanded from 5 favourites (fewer than the slots)
\* and 77 other images (more than the slots).
C7_Witness ==
    /\ bpc = "cell"
    /\ placed = << >>
    /\ Len(favs) = 5
    /\ Len(others) = 77
    /\ Len(others_to_place) = 76

\* the gutter of the style, as the claim gives it
GutterOf(st) == IF st = "cinematic" THEN 6 ELSE 16

\* the pixel rectangles [x, x + tile_w) x [y, y + tile_h) of two loop bodies
\* are at least g pixels apart, along the columns or along the rows
Apart(e, f, g) ==
    \/ e.x + tile_w(style) + g <= f.x
    \/ f.x + tile_w(style) + g <= e.x
    \/ e.y + tile_h(style) + g <= f.y
    \/ f.y + tile_h(style) + g <= e.y

\* C11: on the 2560x1440 canvas, with tile_w = (W - 16*g) // 15 and
\* tile_h = (H - 7*g) // 6 for the gutter g of the style (6 or 16), every tile
\* pasted so far lies inside the canvas with a left and top margin of g per
\* column and row pitch, the newest tile is at least g pixels away from every
\* earlier one, and the division's remainder is extra margin on the right of
\* the last column and below the last row only.
C11_TilesDisjointInCanvas ==
    LET g == GutterOf(style)
        tw == (2560 - 16 * g) \div 15
        th == (1440 - 7 * g) \div 6
    IN  placed # << >> =>
          LET e == placed[Len(placed)]
          IN  /\ tile_w(style) = tw
              /\ tile_h(style) = th
              /\ e.x = g + e.c * (tw + g)
              /\ e.y = g + e.r * (th + g)
              /\ 0 <= e.x /\ e.x + tw <= 2560
              /\ 0 <= e.y /\ e.y + th <= 1440
              /\ \A k \in 1..(Len(placed) - 1) : Apart(placed[k], e, g)
              /\ e.c = 14 => 2560 - (e.x + tw) = g + ((2560 - 16 * g) % 15)
              /\ e.r = 5 => 1440 - (e.y + th) = g + ((1440 - 7 * g) % 6)

\* C11 witness: the last tile of a finished cinematic banner, whose right
\* margin is the gutter of 6 plus the remainder of 4.
C11_Witness ==
    /\ bpc = "saved"
    /\ style = "cinematic"
    /\ Len(placed) = 90
    /\ placed[90].c = 14
    /\ placed[90].r = 5
    /\ W - (placed[90].x + tile_w(style)) = 10

====
